---- MODULE Spec2Model ----
(***************************************************************************)
(* tiws: WebSocket client over Ti.Network.Socket.TCP.                      *)
(*                                                                         *)
(* The model follows src/src/websocket.js (class WebSocket) and the        *)
(* Sender, applyMask and opcode constants of src/src/utils.js.  Every      *)
(* handler is an operator from a record of the object's fields to the      *)
(* record after the handler; an action applies one handler to the          *)
(* variables.  Buffers are sequences of bytes 0..255, strings are          *)
(* sequences of code points.  An exception raised inside a handler is      *)
(* kept in the field `thrown`: it ends the handler at the point the code   *)
(* raises it, with the assignments made up to that point kept.             *)
(*                                                                         *)
(* Application data passed to send() and pong() is a Buffer.  The          *)
(* application is taken to listen for "error" (an EventEmitter with no     *)
(* "error" listener throws from emit).                                     *)
(***************************************************************************)
EXTENDS Integers, Sequences, FiniteSets, TLC

VARIABLES
  readyState,          \* this.readyState
  transitions,         \* the values assigned to this.readyState, in order
  socket,              \* state of the Ti socket this.socket refers to, "undefined" once dropped
  sender,              \* this.sender: [defined, firstFragment]
  secWebSocketKey,     \* this.secWebSocketKey
  closeFrameSent,      \* this.closeFrameSent
  closeFrameReceived,  \* this.closeFrameReceived
  responseStack,       \* this.responseStack.stack
  events,              \* events emitted to the application, in order
  written,             \* buffers handed to socket.write, in order
  pending,             \* write-completion callbacks not yet run, in order
  callbacks,           \* completion callbacks of the application invoked so far
  pump,                \* Ti.Stream.pump on the socket: "idle", "running", "ended"
  stream,              \* the bytes handed to processDataFramesInBuffer so far
  last,                \* the handler that ran last, its input and what it threw
  steps,               \* number of handlers run
  callerBuffer         \* the bytes of a Buffer that the application holds and sends

vars == <<readyState, transitions, socket, sender, secWebSocketKey, closeFrameSent, closeFrameReceived,
          responseStack, events, written, pending, callbacks, pump, stream, last, steps,
          callerBuffer>>

-----------------------------------------------------------------------------
(* Constants of the program *)

CONNECTING == 0
OPEN == 1
CLOSING == 2
CLOSED == 3

ProtocolError == 1002
NoStatus == 1005
Abnormal == 1006

OpcodeContinueFrame == 0
OpcodeTextFrame == 1
OpcodeBinaryFrame == 2
OpcodeConnectionClose == 8
OpcodePing == 9
OpcodePong == 10

FinMask == 128
OpcodeMask == 15
MaskMask == 128
PayloadLengthMask == 127

EMPTY_BUFFER == <<>>

\* "Received masked data from server"
MsgMasked == <<82, 101, 99, 101, 105, 118, 101, 100, 32, 109, 97, 115, 107, 101, 100, 32, 100, 97, 116, 97, 32, 102, 114, 111, 109, 32, 115, 101, 114, 118, 101, 114>>
\* "Control frames can't be fragmented."
MsgControlFragmented == <<67, 111, 110, 116, 114, 111, 108, 32, 102, 114, 97, 109, 101, 115, 32, 99, 97, 110, 39, 116, 32, 98, 101, 32, 102, 114, 97, 103, 109, 101, 110, 116, 101, 100, 46>>
\* "A frame after a fragmeneted message must be a continue frame."
MsgNotContinue == <<65, 32, 102, 114, 97, 109, 101, 32, 97, 102, 116, 101, 114, 32, 97, 32, 102, 114, 97, 103, 109, 101, 110, 101, 116, 101, 100, 32, 109, 101, 115, 115, 97, 103, 101, 32, 109, 117, 115, 116, 32, 98, 101, 32, 97, 32, 99, 111, 110, 116, 105, 110, 117, 101, 32, 102, 114, 97, 109, 101, 46>>
\* "connection closed by server"
ReasonByServer == <<99, 111, 110, 110, 101, 99, 116, 105, 111, 110, 32, 99, 108, 111, 115, 101, 100, 32, 98, 121, 32, 115, 101, 114, 118, 101, 114>>

\* Exceptions a handler can end with; NoThrow when it returns normally.
NoThrow == "none"
ErrNotOpen == "Error: WebSocket is not open: readyState 0 (CONNECTING)"
ErrFragmented == "Error: Fragmented data in buffer which cannot be processed"
ErrLength64 == "Error: unsupported payload length of 64 bit unsinged int"
ErrClosePayload == "RangeError: Invalid payload length 1"
ErrBufferUndefined == "TypeError: Cannot read property 'length' of undefined"
ErrSocketUndefined == "TypeError: Cannot read property 'close' of undefined"
ErrSocketNotConnected == "Ti.Network.Socket.TCP.close: socket is not connected"
ErrCopyRange == "RangeError: sourceStart out of range"
ErrAllocSize == "RangeError: invalid Buffer size"
ErrCbNotFunction == "TypeError: cb is not a function"

-----------------------------------------------------------------------------
(* Bytes, bit operations and string conversions *)

Byte == 0..255

RECURSIVE BitXor(_, _)
\* a ^ b on non-negative integers
BitXor(a, b) ==
  IF a = 0 THEN b
  ELSE IF b = 0 THEN a
  ELSE (((a % 2) + (b % 2)) % 2) + 2 * BitXor(a \div 2, b \div 2)

RECURSIVE BitAnd(_, _)
\* a & b on non-negative integers
BitAnd(a, b) ==
  IF a = 0 \/ b = 0 THEN 0
  ELSE ((a % 2) * (b % 2)) + 2 * BitAnd(a \div 2, b \div 2)

RECURSIVE BitOr(_, _)
\* a | b on non-negative integers
BitOr(a, b) ==
  IF a = 0 THEN b
  ELSE IF b = 0 THEN a
  ELSE (IF a % 2 = 1 \/ b % 2 = 1 THEN 1 ELSE 0) + 2 * BitOr(a \div 2, b \div 2)

\* buffer[i] of the code (zero-based there), undefined past the end; undefined is 0 in << | &
ByteAt(buffer, i) == IF i + 1 <= Len(buffer) THEN buffer[i + 1] ELSE 0

\* buf.slice(start, end) with zero-based start and exclusive end, clamped to the buffer
Slice(buffer, start, end) ==
  LET e == IF end > Len(buffer) THEN Len(buffer) ELSE end
  IN  IF start >= e THEN <<>> ELSE SubSeq(buffer, start + 1, e)

Zeros(n) == [i \in 1..n |-> 0]

\* data.writeUInt16BE(code, 0)
UInt16BE(n) == <<(n \div 256) % 256, n % 256>>

\* data.readUInt16BE(0)
ReadUInt16BE(data) == data[1] * 256 + data[2]

\* target.writeUInt32BE(n, ...)
UInt32BE(n) == <<(n \div 16777216) % 256, (n \div 65536) % 256, (n \div 256) % 256, n % 256>>

\* UTF-8 encoding of one code point of the Basic Multilingual Plane
Utf8EncodeChar(c) ==
  IF c < 128 THEN <<c>>
  ELSE IF c < 2048 THEN <<192 + (c \div 64), 128 + (c % 64)>>
  ELSE <<224 + (c \div 4096), 128 + ((c \div 64) % 64), 128 + (c % 64)>>

RECURSIVE Utf8Encode(_)
\* data.write(reason, 2) / Buffer.byteLength(reason): the bytes of a string
Utf8Encode(str) ==
  IF str = <<>> THEN <<>> ELSE Utf8EncodeChar(Head(str)) \o Utf8Encode(Tail(str))

\* buffer.toString() on the bytes the model delivers: an ASCII byte is its own code
\* point; a byte of 128..191 with no lead byte before it is malformed and decodes
\* to U+FFFD (the payload bytes of the model are below 192).
Utf8Decode(buffer) == [i \in 1..Len(buffer) |-> IF buffer[i] < 128 THEN buffer[i] ELSE 65533]

-----------------------------------------------------------------------------
(* utils.js: masking and frame construction *)

\* applyMask(source, mask, output, offset, length) with output = source, offset = 0
applyMask(source, mask) == [i \in 1..Len(source) |-> BitXor(source[i], mask[((i - 1) % 4) + 1])]

\* createFrameBuffer that sets no MASK bit and leaves the payload as it is
createFrameBufferUnmasked(data, opcode, fin, rsv1, mask) ==
  [frame |-> <<(IF fin THEN BitOr(opcode, 128) ELSE opcode), Len(data) % 126>>
               \o mask \o data,
   data |-> data]

\* Sender.createFrameBuffer: [frame |-> the bytes returned, data |-> options.data afterwards]
createFrameBuffer(data, opcode, fin, rsv1, mask) ==
  LET payloadLength == IF Len(data) >= 65536 THEN 127
                       ELSE IF Len(data) > 125 THEN 126
                       ELSE Len(data)
      byte0 == (IF fin THEN BitOr(opcode, 128) ELSE opcode) + (IF rsv1 THEN 64 ELSE 0)
      byte1 == BitOr(payloadLength, 128)
      ext   == IF payloadLength = 126 THEN UInt16BE(Len(data))
               ELSE IF payloadLength = 127 THEN UInt32BE(0) \o UInt32BE(Len(data))
               ELSE <<>>
      target == <<byte0, byte1>> \o ext \o mask
      masked == applyMask(data, mask)
  IN  [frame |-> target \o masked, data |-> masked]

-----------------------------------------------------------------------------
(* Values passed around by the handlers *)

\* an optional number: a close code that may be undefined
Undefined == [defined |-> FALSE, value |-> 0]
Num(n) == [defined |-> TRUE, value |-> n]

\* an optional boolean: the mask argument of pong()
NoMask == [defined |-> FALSE, value |-> FALSE]
Mask(b) == [defined |-> TRUE, value |-> b]

\* the argument an event carries
NoArg == [type |-> "none", code |-> 0, data |-> <<>>]
NumberArg(n) == [type |-> "number", code |-> n, data |-> <<>>]
BufferArg(b) == [type |-> "buffer", code |-> 0, data |-> b]
StringArg(str) == [type |-> "string", code |-> 0, data |-> str]
ErrorArg(msg) == [type |-> "error", code |-> 0, data |-> msg]

\* completion callbacks: none given, the application's, NOOP, the closure close()
\* hands to sender.close (it holds close()'s code and reason), and a value that is
\* truthy but no function
NoCb == [kind |-> "none", op |-> "", code |-> Undefined, reason |-> <<>>]
UserCb(op) == [kind |-> "user", op |-> op, code |-> Undefined, reason |-> <<>>]
NOOP == [kind |-> "noop", op |-> "", code |-> Undefined, reason |-> <<>>]
CloseCb(code, reason) == [kind |-> "close", op |-> "close", code |-> code, reason |-> reason]
NotAFunction == [kind |-> "notfn", op |-> "", code |-> Undefined, reason |-> <<>>]

\* what processDataFrame returns to the loop of processDataFramesInBuffer
BufferVal(bytes) == [type |-> "buffer", bytes |-> bytes]
NumberVal(n) == [type |-> "number", bytes |-> <<n>>]
UndefinedVal == [type |-> "undefined", bytes |-> <<>>]

Throw(s, e) == [s EXCEPT !.thrown = e]

\* this.readyState = value
SetReadyState(s, value) ==
  [s EXCEPT !.readyState = value, !.transitions = Append(@, value)]
Ok(s) == s.thrown = NoThrow

-----------------------------------------------------------------------------
(* websocket.js: events, teardown *)

\* WebSocket.emitEvent(name, data): the handler and the listeners get `data` alone
emitEvent(s, name, data) ==
  [s EXCEPT !.events = Append(@, [name |-> name, type |-> data.type,
                                  code |-> data.code, data |-> data.data])]

\* WebSocket.emitClose(code = 1006, message = ''): emitEvent('close', code, message)
\* passes message in a third position emitEvent has no parameter for
emitClose(s, code, message) ==
  emitEvent(SetReadyState(s, CLOSED), "close",
            NumberArg(IF code.defined THEN code.value ELSE Abnormal))

\* this.socket.close(): Ti.Network.Socket.TCP.close throws unless the socket is connected
socketClose(s) ==
  IF s.socket = "undefined" THEN Throw(s, ErrSocketUndefined)
  ELSE IF s.socket = "CONNECTED" THEN [s EXCEPT !.socket = "CLOSED"]
  ELSE Throw(s, ErrSocketNotConnected)

\* closeSocket of WebSocket.close
closeSocket(s, code, reason) ==
  LET s1 == socketClose(s)
  IN  IF Ok(s1) THEN emitClose(s1, code, reason) ELSE s1

\* abortHandshake that leaves a connected socket open
abortHandshakeKeepSocket(s, msg) ==
  emitClose(SetReadyState(s, CLOSING), Num(Abnormal), msg)

\* abortHandshake(webSocket, msg)
abortHandshake(s, msg) ==
  LET s1 == SetReadyState(s, CLOSING)
      s2 == IF s1.socket = "undefined" THEN Throw(s1, ErrSocketUndefined)
            ELSE IF s1.socket = "CONNECTED" THEN socketClose(s1)
            ELSE s1
  IN  IF Ok(s2) THEN emitClose(s2, Num(Abnormal), msg) ELSE s2

\* WebSocket.socketOnClose
socketOnClose(s) ==
  emitClose([SetReadyState(s, CLOSING) EXCEPT !.socket = "undefined"], Undefined, <<>>)

-----------------------------------------------------------------------------
(* utils.js: Sender *)

\* Sender.sendFrame(frame, cb): the write's completion runs cb when cb is truthy.
\* A completion that runs nothing, or NOOP, changes no state and is not queued.
sendFrame(s, frame, cb) ==
  [s EXCEPT !.written = Append(@, frame),
            !.pending = IF cb.kind \in {"none", "noop"} THEN @ ELSE Append(@, cb)]

\* Fragment that never sets firstFragment again after a final fragment
FragmentNoReset(firstFragment, binary, compress, fin) ==
  [opcode |-> IF firstFragment THEN (IF binary THEN OpcodeBinaryFrame ELSE OpcodeTextFrame)
              ELSE OpcodeContinueFrame,
   rsv1 |-> IF firstFragment THEN compress ELSE FALSE,
   firstFragment |-> FALSE]

\* the first-fragment bookkeeping of Sender.send: [opcode, rsv1, firstFragment afterwards]
Fragment(firstFragment, binary, compress, fin) ==
  LET first == firstFragment
  IN  [opcode |-> IF first THEN (IF binary THEN OpcodeBinaryFrame ELSE OpcodeTextFrame)
                  ELSE OpcodeContinueFrame,
       rsv1 |-> IF first THEN compress ELSE FALSE,
       firstFragment |-> IF fin THEN TRUE ELSE FALSE]

\* Sender.send(data, options, cb)
SenderSend(s, data, opts, cb, mask) ==
  LET f == Fragment(s.sender.firstFragment, opts.binary, opts.compress, opts.fin)
      s1 == [s EXCEPT !.sender.firstFragment = f.firstFragment]
  IN  sendFrame(s1, createFrameBuffer(data, f.opcode, opts.fin, f.rsv1, mask).frame, cb)

\* Sender.pong(data, cb): the frame is built from a copy of data
SenderPong(s, data, cb, mask) ==
  sendFrame(s, createFrameBuffer(data, OpcodePong, TRUE, FALSE, mask).frame, cb)

\* the payload Sender.close builds from a numeric or undefined code and a reason
ClosePayload(code, reason) ==
  IF ~code.defined THEN <<>>
  ELSE IF reason = <<>> THEN UInt16BE(code.value)
  ELSE UInt16BE(code.value) \o Utf8Encode(reason)

\* Sender.close(code, reason, cb)
SenderClose(s, code, reason, cb, mask) ==
  sendFrame(s, createFrameBuffer(ClosePayload(code, reason), OpcodeConnectionClose,
                                 TRUE, FALSE, mask).frame, cb)

-----------------------------------------------------------------------------
(* websocket.js: operations of the application *)

\* sendAfterClose that drops the callback
sendAfterCloseSilent(s, data, cb) == s

\* WebSocket.sendAfterClose(data, cb)
sendAfterClose(s, data, cb) ==
  IF cb.kind = "user" THEN [s EXCEPT !.callbacks = Append(@, [op |-> cb.op, err |-> TRUE])]
  ELSE s

\* WebSocket.pong(data, mask, cb): mask is [defined, value]; sender.pong(data, mask, cb)
\* binds mask to Sender.pong's cb parameter
pong(s, data, maskArg, cb, mask) ==
  IF s.readyState = CONNECTING THEN Throw(s, ErrNotOpen)
  ELSE IF s.readyState # OPEN THEN sendAfterClose(s, data, cb)
  ELSE LET m == IF maskArg.defined THEN maskArg.value ELSE TRUE
       IN  SenderPong(s, data, IF m THEN NotAFunction ELSE NoCb, mask)

\* the option `name` of send()'s options over the default
Opt(options, name, default) == IF name \in DOMAIN options THEN options[name] ELSE default

\* WebSocket.send(data, options, cb), data a Buffer
send(s, data, options, cb, mask) ==
  IF s.readyState = CONNECTING THEN Throw(s, ErrNotOpen)
  ELSE IF s.readyState # OPEN THEN sendAfterClose(s, data, cb)
  ELSE SenderSend(s, data, [binary |-> Opt(options, "binary", TRUE),
                            compress |-> Opt(options, "compress", FALSE),
                            fin |-> Opt(options, "fin", TRUE)], cb, mask)

\* CloseHandshakeDone with || for &&
CloseHandshakeDoneEither(s) == s.closeFrameSent \/ s.closeFrameReceived

\* the test close() makes while CLOSING
CloseHandshakeDone(s) == s.closeFrameSent /\ s.closeFrameReceived

\* WebSocket.close(code, reason)
close(s, code, reason, mask) ==
  IF s.readyState = CLOSED THEN s
  ELSE IF s.readyState = CONNECTING
    THEN abortHandshake(s, "WebSocket was closed before the connection was established")
  ELSE IF s.readyState = CLOSING
    THEN IF CloseHandshakeDone(s) THEN closeSocket(s, code, reason) ELSE s
  ELSE SenderClose(SetReadyState(s, CLOSING), code, reason, CloseCb(code, reason), mask)

\* the completion callback of a write, run with no argument
RunCallback(s, cb) ==
  IF cb.kind = "user" THEN [s EXCEPT !.callbacks = Append(@, [op |-> cb.op, err |-> FALSE])]
  ELSE IF cb.kind = "close"
    THEN LET s1 == [s EXCEPT !.closeFrameSent = TRUE]
         IN  IF s1.closeFrameReceived THEN closeSocket(s1, cb.code, cb.reason) ELSE s1
  ELSE IF cb.kind = "notfn" THEN Throw(s, ErrCbNotFunction)
  ELSE s

\* WebSocket.disconnectAndEmitError(error, closeCode)
disconnectAndEmitError(s, message, closeCode, mask) ==
  close(emitEvent(s, "error", ErrorArg(message)),
        IF closeCode.defined THEN closeCode ELSE Num(Abnormal), message, mask)

-----------------------------------------------------------------------------
(* websocket.js: the receive path *)

\* new WebSocketResponse()
WebSocketResponse ==
  [isFin |-> FALSE, opcode |-> OpcodeContinueFrame, bytesLeft |-> 0, frameCount |-> 0,
   buffer |-> <<>>]

\* ResponseStack.pop on the stack's array
Pop(stack) == IF stack = <<>> THEN <<>> ELSE SubSeq(stack, 1, Len(stack) - 1)

\* the close branch of WebSocket.processResponse
ProcessClose(s, data, mask) ==
  IF Len(data) = 1 THEN Throw(s, ErrClosePayload)
  ELSE LET closeCode == IF Len(data) = 0 THEN NoStatus ELSE ReadUInt16BE(data)
           closeReason == IF Len(data) = 0 THEN ReasonByServer
                          ELSE Utf8Decode(Slice(data, 2, Len(data)))
           s1 == [s EXCEPT !.closeFrameReceived = TRUE]
       IN  IF closeCode = NoStatus THEN close(s1, Undefined, <<>>, mask)
           ELSE close(s1, Num(closeCode), closeReason, mask)

\* WebSocket.processResponse(response)
processResponse(s, response, mask) ==
  IF response.isFin /\ response.bytesLeft <= 0
    THEN LET s1 ==
               IF response.opcode = OpcodePing
                 THEN LET p == pong(s, response.buffer, Mask(TRUE), NOOP, mask)
                      IN  IF Ok(p) THEN emitEvent(p, "ping", BufferArg(response.buffer)) ELSE p
               ELSE IF response.opcode = OpcodeConnectionClose
                 THEN ProcessClose(s, response.buffer, mask)
               ELSE IF response.opcode = OpcodeTextFrame
                 THEN emitEvent(s, "message", StringArg(Utf8Decode(response.buffer)))
               ELSE IF response.opcode = OpcodeBinaryFrame
                 THEN emitEvent(s, "message", BufferArg(response.buffer))
               ELSE s
         IN  IF Ok(s1) THEN [s1 EXCEPT !.responseStack = Pop(@)] ELSE s1
    ELSE s

\* processDataFrame that pushes a response for every frame and dispatches none
processDataFramePushAlways(s, buffer, mask) ==
  [s |-> [s EXCEPT !.responseStack =
                     Append(@, [WebSocketResponse EXCEPT
                                  !.opcode = BitAnd(OpcodeMask, buffer[1]),
                                  !.frameCount = 1])],
   ret |-> NumberVal(0)]

\* WebSocket.processDataFrame(buffer): [s |-> the object afterwards, ret |-> the value
\* returned].  buffer.copy returns the number of bytes copied.
processDataFrame(s, buffer, mask) ==
  LET bufferLength == Len(buffer)
      isFin == BitAnd(FinMask, buffer[1]) # 0
      opcode == BitAnd(OpcodeMask, buffer[1])
      isMasked == BitAnd(MaskMask, buffer[2]) # 0
      payloadLength == BitAnd(PayloadLengthMask, buffer[2])
      isControlFrame == opcode = OpcodeConnectionClose \/ opcode = OpcodePing
      payloadDataOffset == IF payloadLength = 126 THEN 4 ELSE 2
      payloadDataLength ==
        IF payloadLength = 126
          THEN BitOr(ByteAt(buffer, 2) * 256, BitAnd(ByteAt(buffer, 3), 65535))
          ELSE payloadLength
      framePayloadDataLength ==
        IF payloadDataLength > bufferLength THEN bufferLength - payloadDataOffset
        ELSE payloadDataLength
      copied == Slice(buffer, payloadDataOffset, payloadDataOffset + payloadDataLength)
      data == copied \o Zeros(payloadDataLength - Len(copied))
      isNewResponse == s.responseStack = <<>>
      old == s.responseStack[Len(s.responseStack)]
      \* lines 420-434: the response the frame belongs to, and the error raised for a
      \* frame that is no continuation while a response is open
      s1 == IF isNewResponse \/ opcode = OpcodeContinueFrame THEN s
            ELSE disconnectAndEmitError(s, MsgNotContinue, Undefined, mask)
      r1 == IF isNewResponse
              THEN [WebSocketResponse EXCEPT !.opcode = opcode,
                                             !.bytesLeft = payloadDataLength,
                                             !.buffer = data]
              ELSE [old EXCEPT !.bytesLeft = IF opcode = OpcodeContinueFrame
                                               THEN payloadDataLength ELSE @,
                               !.buffer = @ \o data]
      \* lines 436-441
      response == [r1 EXCEPT !.bytesLeft = @ - framePayloadDataLength,
                             !.frameCount = @ + 1,
                             !.isFin = isFin]
      s2 == [s1 EXCEPT !.responseStack = IF isNewResponse THEN Append(@, response)
                                         ELSE [@ EXCEPT ![Len(@)] = response]]
      s3 == IF Ok(s1) THEN processResponse(s2, response, mask) ELSE s1
      nextFrameOffset == payloadDataOffset + framePayloadDataLength
      nextFrameLength == Len(buffer) - nextFrameOffset
  IN  IF isMasked
        THEN [s |-> disconnectAndEmitError(s, MsgMasked, Num(ProtocolError), mask),
              ret |-> UndefinedVal]
      ELSE IF isControlFrame /\ isFin = FALSE
        THEN [s |-> disconnectAndEmitError(s, MsgControlFragmented, Num(ProtocolError), mask),
              ret |-> UndefinedVal]
      ELSE IF payloadLength = 127
        THEN [s |-> Throw(s, ErrLength64), ret |-> UndefinedVal]
      ELSE IF payloadDataOffset > bufferLength
        THEN [s |-> Throw(s, ErrCopyRange), ret |-> UndefinedVal]
      ELSE IF ~Ok(s3)
        THEN [s |-> s3, ret |-> UndefinedVal]
      ELSE IF nextFrameLength < 0
        THEN [s |-> Throw(s3, ErrAllocSize), ret |-> UndefinedVal]
      ELSE [s |-> s3, ret |-> NumberVal(nextFrameLength)]

\* buffer.length >= n on the value the loop variable holds: a number has no length and
\* undefined compares false
LengthAtLeast(buffer, n) == buffer.type = "buffer" /\ Len(buffer.bytes) >= n

RECURSIVE processDataFramesInBuffer(_, _, _)
\* WebSocket.processDataFramesInBuffer(buffer)
processDataFramesInBuffer(s, buffer, mask) ==
  IF buffer.type = "undefined" THEN Throw(s, ErrBufferUndefined)
  ELSE IF LengthAtLeast(buffer, 2)
    THEN LET r == processDataFrame(s, buffer.bytes, mask)
         IN  IF Ok(r.s) THEN processDataFramesInBuffer(r.s, r.ret, mask) ELSE r.s
  ELSE IF LengthAtLeast(buffer, 1) THEN Throw(s, ErrFragmented)
  ELSE s

\* Buffer.from(Ti.Utils.sha1(key + GUID), 'hex').toString('base64'): keys and digests
\* are numbered, a key's digest is its own and differs from every key
AcceptHash(key) == 100 + key

\* processHandshake without the comparison of the accept hash
processHandshakeNoAccept(s, e) ==
  IF ~e.has101
    THEN abortHandshake(s, "Invalid HTTP status code received during WebSocket hanshake.")
  ELSE emitEvent(SetReadyState(s, OPEN), "open", NoArg)

\* WebSocket.processHandshake(buffer), on what the text of the buffer holds: whether
\* 'HTTP/1.1 101' occurs in it and the value of its Sec-WebSocket-Accept header
\* (0 when it has none)
processHandshake(s, e) ==
  IF ~e.has101
    THEN abortHandshake(s, "Invalid HTTP status code received during WebSocket hanshake.")
  ELSE IF AcceptHash(s.secWebSocketKey) # e.accept
    THEN abortHandshake(s, "Invalid Sec-WebSocket-Accept header")
  ELSE emitEvent(SetReadyState(s, OPEN), "open", NoArg)

\* IsHandshaking with the test written as "not yet open"
IsHandshakingNotOpen(s) == s.readyState # OPEN

\* the test of processInputStream that routes a buffer to processHandshake
IsHandshaking(s) == s.readyState = CONNECTING

\* WebSocket.processInputStream(e), e.bytesProcessed = -1 when e.end
processInputStream(s, e, mask) ==
  IF e.end
    THEN IF s.readyState = CLOSED THEN s ELSE socketOnClose(s)
  ELSE IF IsHandshaking(s) THEN processHandshake(s, e)
  ELSE processDataFramesInBuffer(s, BufferVal(e.buffer), mask)

\* what performWsHandshake writes, "GET " and on: the path and the headers are left out
HandshakeRequest == <<71, 69, 84, 32>>

\* the `connected` callback of the socket: new Sender, performWsHandshake, Ti.Stream.pump
Connected(s) ==
  [s EXCEPT !.socket = "CONNECTED",
            !.sender = [defined |-> TRUE, firstFragment |-> TRUE],
            !.written = Append(@, HandshakeRequest),
            !.pump = "running"]

\* the `error` callback of the socket
SocketError(s) ==
  emitEvent(SetReadyState([s EXCEPT !.socket = "ERROR"], CLOSED), "error", ErrorArg(<<>>))

-----------------------------------------------------------------------------
(* The object as a record, and the record written back to the variables *)

State ==
  [readyState |-> readyState, transitions |-> transitions, socket |-> socket,
   sender |-> sender,
   secWebSocketKey |-> secWebSocketKey, closeFrameSent |-> closeFrameSent,
   closeFrameReceived |-> closeFrameReceived, responseStack |-> responseStack,
   events |-> events, written |-> written, pending |-> pending,
   callbacks |-> callbacks, pump |-> pump, thrown |-> NoThrow]

\* what the handler `op` was called with
Call(op, buffer, binary, fin, hasCb) ==
  [op |-> op, buffer |-> buffer, binary |-> binary, fin |-> fin, hasCb |-> hasCb,
   has101 |-> FALSE, accept |-> 0]

\* the pump's call of processInputStream with the delivery e
DeliverCall(e) ==
  [op |-> "deliver", buffer |-> e.buffer, binary |-> FALSE, fin |-> FALSE, hasCb |-> FALSE,
   has101 |-> e.has101, accept |-> e.accept]

\* the object's fields and the history after a handler
ApplyObject(s, call) ==
  /\ readyState' = s.readyState
  /\ transitions' = s.transitions
  /\ socket' = s.socket
  /\ sender' = s.sender
  /\ secWebSocketKey' = s.secWebSocketKey
  /\ closeFrameSent' = s.closeFrameSent
  /\ closeFrameReceived' = s.closeFrameReceived
  /\ responseStack' = s.responseStack
  /\ events' = s.events
  /\ written' = s.written
  /\ pending' = s.pending
  /\ callbacks' = s.callbacks
  /\ pump' = s.pump
  /\ last' = [op |-> call.op, pre |-> readyState, thrown |-> s.thrown,
              buffer |-> call.buffer, binary |-> call.binary, fin |-> call.fin,
              hasCb |-> call.hasCb, has101 |-> call.has101, accept |-> call.accept]
  /\ stream' = IF call.op = "deliver" /\ ~IsHandshaking(State) THEN stream \o call.buffer
               ELSE stream
  /\ steps' = steps + 1

\* a handler that is not handed the Buffer the application holds
Apply(s, call) == ApplyObject(s, call) /\ callerBuffer' = callerBuffer

\* new WebSocket(address): the fields after the constructor, socket.connect() under way
Constructed(key) ==
  [readyState |-> CONNECTING, transitions |-> <<CONNECTING>>, socket |-> "INITIALIZED",
   sender |-> [defined |-> FALSE, firstFragment |-> FALSE],
   secWebSocketKey |-> key, closeFrameSent |-> FALSE, closeFrameReceived |-> FALSE,
   responseStack |-> <<>>, events |-> <<>>, written |-> <<>>, pending |-> <<>>,
   callbacks |-> <<>>, pump |-> "idle", thrown |-> NoThrow]

InitObject(s) ==
  /\ readyState = s.readyState
  /\ transitions = s.transitions
  /\ socket = s.socket
  /\ sender = s.sender
  /\ secWebSocketKey = s.secWebSocketKey
  /\ closeFrameSent = s.closeFrameSent
  /\ closeFrameReceived = s.closeFrameReceived
  /\ responseStack = s.responseStack
  /\ events = s.events
  /\ written = s.written
  /\ pending = s.pending
  /\ callbacks = s.callbacks
  /\ pump = s.pump
  /\ last = [op |-> "new", pre |-> s.readyState, thrown |-> NoThrow, buffer |-> <<>>,
             binary |-> FALSE, fin |-> FALSE, hasCb |-> FALSE, has101 |-> FALSE,
             accept |-> 0]
  /\ stream = <<>>
  /\ steps = 0

InitFrom(s) == InitObject(s) /\ callerBuffer = <<>>

-----------------------------------------------------------------------------
(* Inputs *)

MaxSteps == 6

\* Sec-WebSocket-Key values generateSecWebSocketKey can draw
SecKeys == {1, 2}

\* mask keys randomFillSync can draw
MaskKeys == {<<1, 2, 3, 4>>, <<255, 0, 170, 85>>}

\* a frame as a peer puts it on the wire (payloads of at most 125 bytes); key is <<>>
\* for an unmasked frame, else the four bytes the payload is masked with
ServerFrame(fin, opcode, key, payload) ==
  <<(IF fin THEN 128 ELSE 0) + opcode, (IF key # <<>> THEN 128 ELSE 0) + Len(payload)>>
    \o key \o (IF key # <<>> THEN applyMask(payload, key) ELSE payload)

\* a delivery of the pump that holds bytes
Bytes(buffer) == [end |-> FALSE, has101 |-> FALSE, accept |-> 0, buffer |-> buffer]

\* "HTTP/1.1 101" and "HTTP/1.1 400", the start of a handshake response
Status101 == <<72, 84, 84, 80, 47, 49, 46, 49, 32, 49, 48, 49>>
Status400 == <<72, 84, 84, 80, 47, 49, 46, 49, 32, 52, 48, 48>>

\* a delivery that holds a handshake response
Response(has101, accept) ==
  [end |-> FALSE, has101 |-> has101, accept |-> accept,
   buffer |-> IF has101 THEN Status101 ELSE Status400]

\* the delivery that ends the stream (bytesProcessed = -1)
EndOfStream == [end |-> TRUE, has101 |-> FALSE, accept |-> 0, buffer |-> <<>>]

-----------------------------------------------------------------------------
(* Actions: one per callback of the transport and per operation of the application *)

NoKey == <<0, 0, 0, 0>>

\* the socket's `connected` callback
SocketConnected ==
  /\ steps < MaxSteps
  /\ socket = "INITIALIZED"
  /\ Apply(Connected(State), Call("connected", <<>>, FALSE, FALSE, FALSE))

\* the socket's `error` callback
SocketFailed ==
  /\ steps < MaxSteps
  /\ socket \in {"INITIALIZED", "CONNECTED"}
  /\ Apply(SocketError(State), Call("error", <<>>, FALSE, FALSE, FALSE))

\* the pump hands processInputStream a buffer out of D; bytes read before a local
\* socket.close() may still be handed over after it
Deliver(D, K) ==
  /\ steps < MaxSteps
  /\ pump = "running"
  /\ socket \in {"CONNECTED", "CLOSED"}
  /\ \E e \in D, mask \in K :
       Apply(processInputStream(State, e, mask), DeliverCall(e))

\* the pump reports the end of the stream
StreamEnd ==
  /\ steps < MaxSteps
  /\ pump = "running"
  /\ Apply([processInputStream(State, EndOfStream, NoKey) EXCEPT !.pump = "ended"],
           Call("end", <<>>, FALSE, FALSE, FALSE))

\* the application calls send(data, options, cb)
Send(A, K) ==
  /\ steps < MaxSteps
  /\ \E a \in A, mask \in K :
       Apply(send(State, a.data, a.options, IF a.hasCb THEN UserCb("send") ELSE NoCb, mask),
             Call("send", a.data, Opt(a.options, "binary", TRUE), Opt(a.options, "fin", TRUE),
                  a.hasCb))

\* the application calls pong(data, mask, cb)
Pong(A, K) ==
  /\ steps < MaxSteps
  /\ \E a \in A, mask \in K :
       Apply(pong(State, a.data, a.mask, IF a.hasCb THEN UserCb("pong") ELSE NoCb, mask),
             Call("pong", a.data, FALSE, FALSE, a.hasCb))

\* the application calls close(code, reason)
Close(A, K) ==
  /\ steps < MaxSteps
  /\ \E a \in A, mask \in K :
       Apply(close(State, a.code, a.reason, mask), Call("close", a.reason, FALSE, FALSE, FALSE))

\* the transport completes the oldest write whose callback is still to run
WriteComplete ==
  /\ steps < MaxSteps
  /\ pending # <<>>
  /\ Apply(RunCallback([State EXCEPT !.pending = Tail(@)], Head(pending)),
           Call("written", <<>>, FALSE, FALSE, FALSE))

-----------------------------------------------------------------------------
(* The connection from the constructor on *)

\* "bye"
Bye == <<98, 121, 101>>

LifeDeliveries ==
  { Response(TRUE, AcceptHash(1)), Response(TRUE, AcceptHash(2)), Response(FALSE, AcceptHash(1)),
    Bytes(ServerFrame(TRUE, OpcodeConnectionClose, <<>>, <<>>)),
    Bytes(ServerFrame(TRUE, OpcodeConnectionClose, <<>>, UInt16BE(1000) \o Bye)),
    Bytes(ServerFrame(TRUE, OpcodeTextFrame, <<>>, <<104, 105>>)),
    Bytes(ServerFrame(TRUE, OpcodeTextFrame, <<1, 2, 3, 4>>, <<104, 105>>)) }

LifeSends == { [data |-> <<104, 105>>, options |-> <<>>, hasCb |-> TRUE],
               [data |-> <<104, 105>>, options |-> <<>>, hasCb |-> FALSE] }

LifePongs == { [data |-> <<112>>, mask |-> NoMask, hasCb |-> TRUE] }

LifeCloses == { [code |-> Undefined, reason |-> <<>>], [code |-> Num(1000), reason |-> Bye] }

Init == \E key \in SecKeys : InitFrom(Constructed(key))

Next ==
  \/ SocketConnected
  \/ SocketFailed
  \/ Deliver(LifeDeliveries, MaskKeys)
  \/ StreamEnd
  \/ Send(LifeSends, MaskKeys)
  \/ Pong(LifePongs, MaskKeys)
  \/ Close(LifeCloses, MaskKeys)
  \/ WriteComplete

Spec == Init /\ [][Next]_vars

-----------------------------------------------------------------------------
(* Claims about the connection's life cycle, checked under Spec *)

HasEvent(name) == \E i \in 1..Len(events) : events[i].name = name

CloseEvent(code) == [name |-> "close", type |-> "number", code |-> code, data |-> <<>>]
OpenEvent == [name |-> "open", type |-> "none", code |-> 0, data |-> <<>>]

\* the transport has reported neither an error nor the end of the stream
TransportUp == socket \in {"CONNECTED", "CLOSED"} /\ pump = "running"

\* C1: over every sequence of operations and transport notifications, each value
\* assigned to readyState is at least the value it replaces in the order
\* CONNECTING < OPEN < CLOSING < CLOSED, so readyState never moves backward and
\* stays CLOSED once it is CLOSED.
C1_ReadyStateMonotonic ==
  /\ readyState = transitions[Len(transitions)]
  /\ \A i \in 1..(Len(transitions) - 1) : transitions[i] <= transitions[i + 1]

\* the connection went through all four states and a handler ran after it was CLOSED
C1_Witness ==
  /\ \A st \in {CONNECTING, OPEN, CLOSING, CLOSED} :
       \E i \in 1..Len(transitions) : transitions[i] = st
  /\ readyState = CLOSED
  /\ last.pre = CLOSED

\* C2: after the handshake has completed, a step tears the transport down
\* (socket.close() on the connected socket) only with closeFrameSent and
\* closeFrameReceived both true, and that step emits "close" and leaves readyState
\* CLOSED; and with the transport up, whenever both flags are true (whichever
\* became true first) the socket is closed, readyState is CLOSED and "close" has
\* been emitted.
C2_CloseHandshake ==
  /\ [][(HasEvent("open") /\ socket = "CONNECTED" /\ socket' = "CLOSED")
          => /\ closeFrameSent' /\ closeFrameReceived'
             /\ readyState' = CLOSED
             /\ Len(events') = Len(events) + 1
             /\ events'[Len(events')].name = "close"]_vars
  /\ []((closeFrameSent /\ closeFrameReceived /\ TransportUp)
          => (socket = "CLOSED" /\ readyState = CLOSED /\ HasEvent("close")))

\* the remote close frame arrived first and the completion of the local close
\* frame's write tore the transport down
C2_Witness ==
  /\ closeFrameSent /\ closeFrameReceived
  /\ last.op = "written"
  /\ socket = "CLOSED"
  /\ readyState = CLOSED
  /\ events[Len(events)].name = "close"

IsDataOrPong(frame) ==
  frame # HandshakeRequest
  /\ BitAnd(frame[1], OpcodeMask) \in
       {OpcodeContinueFrame, OpcodeTextFrame, OpcodeBinaryFrame, OpcodePong}

\* C9: send() and pong() called while CONNECTING throw and write nothing; called
\* while CLOSING or CLOSED they return normally, write nothing and hand an error to
\* the completion callback when one is given (and call nothing when none is); and a
\* step writes a data or pong frame only when it begins with readyState OPEN.
C9_SendOutsideOpen ==
  [][/\ (last'.op \in {"send", "pong"} /\ steps' = steps + 1 /\ readyState = CONNECTING)
          => (last'.thrown = ErrNotOpen /\ written' = written /\ callbacks' = callbacks)
     /\ (last'.op \in {"send", "pong"} /\ steps' = steps + 1 /\ readyState \in {CLOSING, CLOSED})
          => /\ last'.thrown = NoThrow
             /\ written' = written
             /\ callbacks' = IF last'.hasCb
                               THEN Append(callbacks, [op |-> last'.op, err |-> TRUE])
                               ELSE callbacks
     /\ (\E i \in (Len(written) + 1)..Len(written') : IsDataOrPong(written'[i]))
          => readyState = OPEN]_vars

\* send() with a callback was called while CLOSING and the callback got the error
C9_Witness ==
  /\ last.op = "send"
  /\ last.pre = CLOSING
  /\ last.hasCb
  /\ last.thrown = NoThrow
  /\ callbacks # <<>>
  /\ callbacks[Len(callbacks)] = [op |-> "send", err |-> TRUE]

\* C10: readyState becomes OPEN, and "open" is emitted, only in a step that
\* processes, while CONNECTING and before any other assignment to readyState, a
\* response that holds 'HTTP/1.1 101' and the accept hash of the request key; a
\* response that fails either check while CONNECTING leaves readyState CLOSED and
\* emits "close" with 1006 and nothing else; and whenever the connection was
\* aborted this way or otherwise left CONNECTING without opening, readyState was
\* never OPEN and "open" was never emitted.
C10_Handshake ==
  /\ [][/\ ((readyState' = OPEN /\ readyState # OPEN)
              \/ (\E i \in (Len(events) + 1)..Len(events') : events'[i].name = "open"))
             => /\ last'.op = "deliver"
                /\ readyState = CONNECTING
                /\ transitions = <<CONNECTING>>
                /\ last'.has101
                /\ last'.accept = AcceptHash(secWebSocketKey)
                /\ readyState' = OPEN
                /\ events' = Append(events, OpenEvent)
        /\ (last'.op = "deliver" /\ steps' = steps + 1 /\ readyState = CONNECTING
              /\ ~(last'.has101 /\ last'.accept = AcceptHash(secWebSocketKey)))
             => /\ readyState' = CLOSED
                /\ events' = Append(events, CloseEvent(Abnormal))
                /\ \A i \in 1..Len(transitions') : transitions'[i] # OPEN]_vars
  /\ []((Len(transitions) > 1 /\ transitions[2] # OPEN)
          => /\ \A i \in 1..Len(transitions) : transitions[i] # OPEN
             /\ ~HasEvent("open"))

\* a response with status 101 and the accept hash of another key was processed while
\* CONNECTING
C10_Witness ==
  /\ last.op = "deliver"
  /\ last.pre = CONNECTING
  /\ last.has101
  /\ last.accept # AcceptHash(secWebSocketKey)
  /\ readyState = CLOSED
  /\ events = <<CloseEvent(Abnormal)>>

-----------------------------------------------------------------------------
(* Sending, from an open connection *)

MaxSendSteps == 4

\* the object once the socket has connected and the server's response was accepted
Opened(key) ==
  processInputStream(Connected(Constructed(key)), Response(TRUE, AcceptHash(key)), NoKey)

SendArgs ==
  { [data |-> <<104, 105>>, options |-> o, hasCb |-> FALSE] :
      o \in { <<>>, [fin |-> FALSE], [binary |-> FALSE],
              [binary |-> FALSE, fin |-> FALSE], [binary |-> TRUE, fin |-> TRUE] } }

PongArgs == { [data |-> <<112>>, mask |-> NoMask, hasCb |-> FALSE],
              [data |-> <<>>, mask |-> Mask(FALSE), hasCb |-> FALSE] }

InitSend == \E key \in SecKeys : InitFrom(Opened(key))

NextSend ==
  \/ steps < MaxSendSteps /\ Send(SendArgs, MaskKeys)
  \/ steps < MaxSendSteps /\ Pong(PongArgs, MaskKeys)
  \/ steps < MaxSendSteps /\ Close(LifeCloses, MaskKeys)
  \/ steps < MaxSendSteps /\ WriteComplete

SpecSend == InitSend /\ [][NextSend]_vars

\* the frames written that carry data, in the order written
RECURSIVE DataFrames(_)
DataFrames(w) ==
  IF w = <<>> THEN <<>>
  ELSE LET f == w[Len(w)]
           rest == DataFrames(SubSeq(w, 1, Len(w) - 1))
       IN  IF f # HandshakeRequest
              /\ BitAnd(f[1], OpcodeMask) \in {OpcodeContinueFrame, OpcodeTextFrame, OpcodeBinaryFrame}
             THEN Append(rest, f)
             ELSE rest

FrameFin(f) == BitAnd(f[1], FinMask) # 0
FrameOpcode(f) == BitAnd(f[1], OpcodeMask)

\* no message is being sent: no data frame was written, or the last one had fin set
AtMessageStart(w) == DataFrames(w) = <<>> \/ FrameFin(DataFrames(w)[Len(DataFrames(w))])

\* C3: every send() made while OPEN writes exactly one frame, whose fin bit is the
\* call's fin and whose opcode is text or binary (by the call's binary flag) when
\* no message is being sent (no data frame written yet, or the last data frame
\* written had fin set) and continuation otherwise, whatever pong or close frames
\* were written in between; so the data frames written are, message by message, a
\* text/binary frame followed by continuation frames, fin set on the last alone.
C3_Fragments ==
  /\ [][(last'.op = "send" /\ steps' = steps + 1 /\ readyState = OPEN)
          => /\ Len(written') = Len(written) + 1
             /\ SubSeq(written', 1, Len(written)) = written
             /\ FrameFin(written'[Len(written')]) = last'.fin
             /\ FrameOpcode(written'[Len(written')]) =
                  IF AtMessageStart(written)
                    THEN (IF last'.binary THEN OpcodeBinaryFrame ELSE OpcodeTextFrame)
                    ELSE OpcodeContinueFrame]_vars
  /\ [](LET d == DataFrames(written)
        IN  \A i \in 1..Len(d) :
              (FrameOpcode(d[i]) = OpcodeContinueFrame) <=> (i > 1 /\ ~FrameFin(d[i - 1])))

\* a message of three fragments was sent, a pong frame written between two of them
C3_Witness ==
  LET d == DataFrames(written)
  IN  /\ Len(d) = 3
      /\ FrameOpcode(d[1]) = OpcodeTextFrame /\ ~FrameFin(d[1])
      /\ FrameOpcode(d[2]) = OpcodeContinueFrame /\ ~FrameFin(d[2])
      /\ FrameOpcode(d[3]) = OpcodeContinueFrame /\ FrameFin(d[3])
      /\ \E i \in 1..Len(written) : written[i] # HandshakeRequest
                                     /\ FrameOpcode(written[i]) = OpcodePong
                                     /\ i < Len(written)

-----------------------------------------------------------------------------
(* Receiving, from an open connection *)

MaxRecvSteps == 3

TextHi == ServerFrame(TRUE, OpcodeTextFrame, <<>>, <<104, 105>>)
TextH == ServerFrame(FALSE, OpcodeTextFrame, <<>>, <<104>>)
ContinueI == ServerFrame(TRUE, OpcodeContinueFrame, <<>>, <<105>>)
Binary == ServerFrame(TRUE, OpcodeBinaryFrame, <<>>, <<1, 129>>)
PingP == ServerFrame(TRUE, OpcodePing, <<>>, <<112>>)
CloseEmpty == ServerFrame(TRUE, OpcodeConnectionClose, <<>>, <<>>)
CloseOneByte == ServerFrame(TRUE, OpcodeConnectionClose, <<>>, <<3>>)
CloseBye == ServerFrame(TRUE, OpcodeConnectionClose, <<>>, UInt16BE(1000) \o Bye)
MaskedHi == ServerFrame(TRUE, OpcodeTextFrame, <<1, 2, 3, 4>>, <<104, 105>>)
\* a binary frame of 1 byte whose length is written in the 64-bit form
Long64 == <<128 + OpcodeBinaryFrame, 127, 0, 0, 0, 0, 0, 0, 0, 1, 7>>

RecvFrames ==
  { TextHi, TextH, ContinueI, Binary, PingP, CloseEmpty, CloseOneByte, CloseBye, MaskedHi,
    Long64 }

\* deliveries of one frame, of two frames, and of a frame cut in two
RecvDeliveries ==
  { Bytes(f) : f \in RecvFrames }
    \cup { Bytes(TextHi \o f) : f \in {Binary, PingP, CloseOneByte, MaskedHi} }
    \cup { Bytes(TextH \o ContinueI) }
    \cup { Bytes(SubSeq(TextHi, 1, 1)), Bytes(SubSeq(TextHi, 1, 3)), Bytes(SubSeq(TextHi, 4, 4)) }

InitRecv == \E key \in SecKeys : InitFrom(Opened(key))

NextRecv ==
  \/ steps < MaxRecvSteps /\ Deliver(RecvDeliveries, MaskKeys)
  \/ steps < MaxRecvSteps /\ Close(LifeCloses, MaskKeys)
  \/ steps < MaxRecvSteps /\ WriteComplete

SpecRecv == InitRecv /\ [][NextRecv]_vars

-----------------------------------------------------------------------------
(* Receiving: the frames of RFC 6455 section 5.2 that a buffer holds, read
   independently of processDataFrame, to state what a delivery should produce *)

\* the frame at the head of the bytes b; whole is false when b ends inside it
HeadFrame(b) ==
  LET len7 == BitAnd(ByteAt(b, 1), PayloadLengthMask)
      masked == BitAnd(ByteAt(b, 1), MaskMask) # 0
      ext == IF len7 = 126 THEN 2 ELSE IF len7 = 127 THEN 8 ELSE 0
      n == IF len7 = 126 THEN ByteAt(b, 2) * 256 + ByteAt(b, 3)
           ELSE IF len7 = 127 THEN ByteAt(b, 8) * 256 + ByteAt(b, 9)
           ELSE len7
      offset == 2 + ext + (IF masked THEN 4 ELSE 0)
  IN  [fin |-> BitAnd(ByteAt(b, 0), FinMask) # 0,
       opcode |-> BitAnd(ByteAt(b, 0), OpcodeMask),
       masked |-> masked,
       len7 |-> len7,
       key |-> IF masked THEN Slice(b, 2 + ext, 2 + ext + 4) ELSE <<>>,
       payload |-> Slice(b, offset, offset + n),
       size |-> offset + n,
       whole |-> Len(b) >= 2 /\ Len(b) >= offset + n]

RECURSIVE Frames(_)
\* the frames of the bytes b in wire order; only the last one may be cut short
Frames(b) ==
  IF b = <<>> THEN <<>>
  ELSE LET f == HeadFrame(b)
       IN  IF f.whole THEN <<f>> \o Frames(Slice(b, f.size, Len(b))) ELSE <<f>>

WholeFrames(b) == \A i \in 1..Len(Frames(b)) : Frames(b)[i].whole

IsDataOpcode(opcode) == opcode \in {OpcodeTextFrame, OpcodeBinaryFrame}

RECURSIVE WellFormed(_, _)
\* unmasked text, binary, continuation and ping frames in an order the protocol
\* allows; open says whether a fragmented message is under way
WellFormed(frames, open) ==
  IF frames = <<>> THEN TRUE
  ELSE LET f == Head(frames)
       IN  /\ ~f.masked
           /\ \/ f.opcode = OpcodePing /\ f.fin /\ WellFormed(Tail(frames), open)
              \/ IsDataOpcode(f.opcode) /\ ~open /\ WellFormed(Tail(frames), ~f.fin)
              \/ f.opcode = OpcodeContinueFrame /\ open /\ WellFormed(Tail(frames), ~f.fin)

\* the "message" event of a reassembled message
MessageEvent(opcode, data) ==
  IF opcode = OpcodeTextFrame
    THEN [name |-> "message", type |-> "string", code |-> 0, data |-> Utf8Decode(data)]
    ELSE [name |-> "message", type |-> "buffer", code |-> 0, data |-> data]

RECURSIVE Reassemble(_, _)
\* the messages that data frames make: open is <<>> or holds the message under way;
\* complete says that the frames are unmasked data frames that end with a message's end
Reassemble(frames, open) ==
  IF frames = <<>> THEN [messages |-> <<>>, complete |-> open = <<>>]
  ELSE LET f == Head(frames)
           cur == IF open = <<>> THEN [opcode |-> f.opcode, data |-> f.payload]
                  ELSE [opcode |-> open[1].opcode, data |-> open[1].data \o f.payload]
           rest == Reassemble(Tail(frames), IF f.fin THEN <<>> ELSE <<cur>>)
       IN  IF \/ f.masked
              \/ (open = <<>> /\ ~IsDataOpcode(f.opcode))
              \/ (open # <<>> /\ f.opcode # OpcodeContinueFrame)
             THEN [messages |-> <<>>, complete |-> FALSE]
             ELSE [messages |-> (IF f.fin THEN <<MessageEvent(cur.opcode, cur.data)>>
                                 ELSE <<>>) \o rest.messages,
                   complete |-> rest.complete]

\* the message under way that the response stack holds
InProgress ==
  IF responseStack = <<>> THEN <<>>
  ELSE <<[opcode |-> responseStack[1].opcode, data |-> responseStack[1].buffer]>>

\* the response stack is empty or holds the whole frames of one unfinished data message
AtFrameBoundary ==
  \/ responseStack = <<>>
  \/ /\ Len(responseStack) = 1
     /\ IsDataOpcode(responseStack[1].opcode)
     /\ ~responseStack[1].isFin
     /\ responseStack[1].bytesLeft = 0

\* what a step adds to the events and to the frames written
NewEvents == SubSeq(events', Len(events) + 1, Len(events'))
NewWritten == SubSeq(written', Len(written) + 1, Len(written'))

EventsNamed(e, names) == SelectSeq(e, LAMBDA x : x.name \in names)
FramesWith(f, opcode) == SelectSeq(f, LAMBDA x : x.opcode = opcode)

\* the pump hands over a buffer of whole frames while the connection is OPEN
DeliversWhole ==
  last'.op = "deliver" /\ readyState = OPEN /\ WholeFrames(last'.buffer)

\* C4: a delivery of whole frames that holds a frame with the MASK bit set raises an
\* "error" event for the masked data; when the masked frame comes first, the
\* delivery adds no "message" or "ping" event, leaves the reassembly state alone
\* and records no close frame as received.
C4_MaskedRejected ==
  [][ LET frames == Frames(last'.buffer)
      IN  (DeliversWhole /\ \E i \in 1..Len(frames) : frames[i].masked)
            => /\ Len(EventsNamed(NewEvents, {"error"})) >= 1
               /\ \A i \in 1..Len(NewEvents) :
                    NewEvents[i].name = "error" => NewEvents[i].data = MsgMasked
               /\ frames[1].masked =>
                    /\ EventsNamed(NewEvents, {"message", "ping"}) = <<>>
                    /\ responseStack' = responseStack
                    /\ closeFrameReceived' = closeFrameReceived ]_vars

\* C5: a delivery of whole frames whose last frame is a close frame with a payload
\* of exactly 1 byte, after well-formed data frames, fails with an error (an
\* exception or an "error" event), leaves closeFrameReceived false and starts no
\* close: readyState stays OPEN and no close frame is sent.
C5_CloseOneByteFails ==
  [][ LET frames == Frames(last'.buffer)
          n == Len(frames)
      IN  (/\ DeliversWhole
           /\ n >= 1
           /\ frames[n].opcode = OpcodeConnectionClose
           /\ frames[n].fin /\ ~frames[n].masked /\ Len(frames[n].payload) = 1
           /\ WellFormed(SubSeq(frames, 1, n - 1), responseStack # <<>>))
            => /\ \/ last'.thrown # NoThrow
                  \/ EventsNamed(NewEvents, {"error"}) # <<>>
               /\ ~closeFrameReceived'
               /\ readyState' = OPEN
               /\ closeFrameSent' = closeFrameSent ]_vars

\* C6: a delivery of whole, well-formed frames, taken with no message under way,
\* adds one "ping" event per ping frame, carrying the frame's payload, in wire
\* order, and writes one pong frame per ping frame, masked, whose unmasked payload
\* is the ping's payload.
C6_PingPong ==
  [][ LET frames == Frames(last'.buffer)
          pings == FramesWith(frames, OpcodePing)
          pongs == FramesWith([i \in 1..Len(NewWritten) |-> HeadFrame(NewWritten[i])],
                              OpcodePong)
      IN  (DeliversWhole /\ responseStack = <<>> /\ WellFormed(frames, FALSE))
            => /\ EventsNamed(NewEvents, {"ping"})
                    = [i \in 1..Len(pings) |->
                         [name |-> "ping", type |-> "buffer", code |-> 0,
                          data |-> pings[i].payload]]
               /\ Len(pongs) = Len(pings)
               /\ \A i \in 1..Len(pongs) :
                    /\ i <= Len(pings)
                    /\ pongs[i].masked /\ pongs[i].fin /\ pongs[i].whole
                    /\ applyMask(pongs[i].payload, pongs[i].key) = pings[i].payload ]_vars

\* C7: while OPEN, a delivery of whole unmasked data frames that, with the message
\* under way, make complete messages adds exactly the "message" events of those
\* messages: one each, in wire order, the data the concatenated payloads, the kind
\* that of the message's first frame.
C7_Messages ==
  [][ LET r == Reassemble(Frames(last'.buffer), InProgress)
      IN  (DeliversWhole /\ AtFrameBoundary /\ r.complete)
            => NewEvents = r.messages ]_vars

\* C8: while OPEN, a delivery after which the bytes received since the handshake are
\* well-formed frames, the last one possibly cut short, raises no exception and no
\* "error" event; when those bytes end at a frame's end, the events dispatched
\* are those of the same bytes arriving in one delivery.
C8_Deliveries ==
  [][ (/\ last'.op = "deliver"
       /\ readyState = OPEN
       /\ WellFormed(Frames(stream'), FALSE))
        => /\ last'.thrown = NoThrow
           /\ EventsNamed(NewEvents, {"error"}) = <<>>
           /\ WholeFrames(stream') =>
                events' = processInputStream(Opened(secWebSocketKey),
                                             Bytes(stream'), NoKey).events ]_vars

-----------------------------------------------------------------------------
(* Claims about aborts and the transport's notifications, checked under Spec *)

\* C11: close() called while CONNECTING returns normally with readyState CLOSED,
\* has closed the socket if it was connected, has emitted "close" with 1006 and
\* nothing else, and has written nothing; and a handshake response with status 101
\* and the right accept hash that is delivered while CLOSED, the connection never
\* having been OPEN, leaves readyState CLOSED, emits no "open" and writes nothing.
C11_CloseWhileConnecting ==
  [][/\ (last'.op = "close" /\ steps' = steps + 1 /\ readyState = CONNECTING)
          => /\ last'.thrown = NoThrow
             /\ readyState' = CLOSED
             /\ (socket = "CONNECTED" => socket' = "CLOSED")
             /\ events' = Append(events, CloseEvent(Abnormal))
             /\ written' = written
             /\ pending' = pending
     /\ (/\ last'.op = "deliver" /\ steps' = steps + 1 /\ readyState = CLOSED
         /\ \A i \in 1..Len(transitions) : transitions[i] # OPEN
         /\ last'.has101 /\ last'.accept = AcceptHash(secWebSocketKey))
          => /\ readyState' = CLOSED
             /\ \A i \in (Len(events) + 1)..Len(events') : events'[i].name # "open"
             /\ \A i \in 1..Len(transitions') : transitions'[i] # OPEN
             /\ written' = written]_vars

\* close() was called while CONNECTING on a connected socket
C11_Witness ==
  /\ last.op = "close"
  /\ last.pre = CONNECTING
  /\ socket = "CLOSED"
  /\ readyState = CLOSED
  /\ events = <<CloseEvent(Abnormal)>>
  /\ written = <<HandshakeRequest>>

\* C12: when the socket's error callback or the pump's end of stream runs while
\* readyState is not CLOSED, the step emits "close" with 1006 and leaves readyState
\* CLOSED; the error callback also emits "error", ahead of "close".
C12_TransportNotification ==
  [][(last'.op \in {"error", "end"} /\ steps' = steps + 1 /\ readyState # CLOSED)
        => /\ readyState' = CLOSED
           /\ \E i \in (Len(events) + 1)..Len(events') :
                /\ events'[i] = CloseEvent(Abnormal)
                /\ last'.op = "error" =>
                     \E j \in (Len(events) + 1)..(i - 1) : events'[j].name = "error"]_vars

-----------------------------------------------------------------------------
(* Claims about protocol violations and reassembly, checked under SpecRecv *)

\* the frame f violates the protocol, given whether a fragmented message is under way
IsViolation(f, open) ==
  \/ f.masked
  \/ (f.opcode \in {OpcodeConnectionClose, OpcodePing} /\ ~f.fin)
  \/ (IsDataOpcode(f.opcode) /\ open)
  \/ (f.opcode = OpcodeContinueFrame /\ ~open)
  \/ (f.opcode = OpcodeConnectionClose /\ Len(f.payload) = 1)
  \/ f.len7 = 127

\* the frame written w is a masked close frame that carries the status code
IsCloseFrameWith(w, code) ==
  LET f == HeadFrame(w)
  IN  /\ f.whole /\ f.masked /\ f.opcode = OpcodeConnectionClose
      /\ Slice(applyMask(f.payload, f.key), 0, 2) = UInt16BE(code)

\* C13: while OPEN, a delivery of whole frames whose first frame violates the
\* protocol (masked, fragmented control frame, data frame that is no continuation
\* while a message is under way, continuation with no message under way, close
\* payload of 1 byte, 64-bit payload length) emits "error" first, writes a close frame with status 1002,
\* emits no "message" or "ping", and leaves the response stack as it was.
C13_ProtocolViolation ==
  [][ LET frames == Frames(last'.buffer)
      IN  (/\ DeliversWhole /\ steps' = steps + 1
           /\ frames # <<>>
           /\ AtFrameBoundary
           /\ IsViolation(frames[1], responseStack # <<>>))
            => /\ NewEvents # <<>>
               /\ NewEvents[1].name = "error"
               /\ \E i \in 1..Len(NewWritten) : IsCloseFrameWith(NewWritten[i], ProtocolError)
               /\ EventsNamed(NewEvents, {"message", "ping"}) = <<>>
               /\ responseStack' = responseStack ]_vars

-----------------------------------------------------------------------------
(* Claims about the "close" event and the teardown, checked under Spec *)

\* the "close" events that the step adds
NewCloseEvents == EventsNamed(NewEvents, {"close"})

\* C14: a "close" event carries a code and a reason.  When the completion of the
\* write of close(code, reason)'s frame ends the close handshake, the event carries
\* that code and that reason; when a received close frame with a status code and a
\* reason ends it, the event carries the frame's code and reason; when a handshake
\* is aborted, the event carries 1006 and a message that is not empty.
C14_CloseCodeAndReason ==
  [][ /\ steps' = steps + 1 /\ NewCloseEvents # <<>> =>
           \A i \in 1..Len(NewCloseEvents) : NewCloseEvents[i].type = "number"
      /\ (/\ last'.op = "written" /\ steps' = steps + 1
          /\ NewCloseEvents # <<>>
          /\ Head(pending).kind = "close" /\ Head(pending).code.defined)
           => /\ NewCloseEvents[1].code = Head(pending).code.value
              /\ NewCloseEvents[1].data = Head(pending).reason
      /\ LET frames == Frames(last'.buffer)
         IN  (/\ last'.op = "deliver" /\ steps' = steps + 1
              /\ readyState = CLOSING /\ closeFrameSent
              /\ NewCloseEvents # <<>>
              /\ frames # <<>>
              /\ frames[1].opcode = OpcodeConnectionClose /\ Len(frames[1].payload) >= 2)
               => /\ NewCloseEvents[1].code = ReadUInt16BE(frames[1].payload)
                  /\ NewCloseEvents[1].data
                       = Utf8Decode(Slice(frames[1].payload, 2, Len(frames[1].payload)))
      /\ (steps' = steps + 1 /\ readyState = CONNECTING /\ NewCloseEvents # <<>>
          /\ last'.op \in {"close", "deliver"})
           => /\ NewCloseEvents[1].code = Abnormal
              /\ NewCloseEvents[1].data # <<>> ]_vars

-----------------------------------------------------------------------------
(* The frames written, from an open connection *)

MaxFrameSteps == 2

\* a payload long enough for the 16-bit length
LongData == [i \in 1..126 |-> i]

FrameSends ==
  SendArgs \cup { [data |-> LongData, options |-> <<>>, hasCb |-> FALSE],
                  [data |-> <<>>, options |-> <<>>, hasCb |-> TRUE] }

NextFrames ==
  \/ steps < MaxFrameSteps /\ Send(FrameSends, MaskKeys)
  \/ steps < MaxFrameSteps /\ Pong(PongArgs, MaskKeys)
  \/ steps < MaxFrameSteps /\ Close(LifeCloses, MaskKeys)
  \/ steps < MaxFrameSteps /\ WriteComplete

SpecFrames == InitSend /\ [][NextFrames]_vars

\* the payloads that the call recorded in `call` hands to createFrameBuffer
PayloadsOf(call) ==
  IF call.op = "close" THEN { ClosePayload(a.code, a.reason) : a \in LifeCloses }
  ELSE {call.buffer}

\* C15: every frame that send(), pong() or close() writes is one whole frame with
\* the MASK bit set, laid out as header, 4-byte key, payload, where byte i of the
\* payload is byte i of the data XOR byte (i mod 4) of the key, and applying the
\* mask with the frame's key to the frame's payload gives the data back.
C15_Masked ==
  [][ \A i \in 1..Len(NewWritten) :
        LET w == NewWritten[i]
            f == HeadFrame(w)
        IN  (last'.op \in {"send", "pong", "close"} /\ steps' = steps + 1)
              => /\ f.whole /\ Len(w) = f.size
                 /\ BitAnd(w[2], MaskMask) = MaskMask
                 /\ f.key \in MaskKeys
                 /\ SubSeq(w, Len(w) - Len(f.payload) - 3, Len(w) - Len(f.payload)) = f.key
                 /\ \E data \in PayloadsOf(last') :
                      /\ Len(f.payload) = Len(data)
                      /\ \A k \in 1..Len(data) :
                           f.payload[k] = BitXor(data[k], f.key[((k - 1) % 4) + 1])
                      /\ applyMask(f.payload, f.key) = data
                      /\ applyMask(applyMask(data, f.key), f.key) = data ]_vars

\* send() has written a frame whose payload takes the 16-bit length
C15_Witness ==
  /\ last.op = "send"
  /\ last.buffer = LongData
  /\ written # <<>>
  /\ HeadFrame(written[Len(written)]).len7 = 126
  /\ HeadFrame(written[Len(written)]).masked
  /\ \E i \in 1..Len(written) : HeadFrame(written[i]).opcode = OpcodePong
  /\ HeadFrame(written[Len(written)]).payload # LongData

-----------------------------------------------------------------------------
(* Claims about the response stack, checked under SpecRecv *)

\* C16: the response stack never holds more than one entry, whatever frames,
\* valid or violating, have been delivered.
C16_OneResponse == Len(responseStack) <= 1

\* frames that violate the protocol have left one response of two frames on the stack
C16_Witness ==
  /\ Len(responseStack) = 1
  /\ responseStack[1].frameCount >= 2
  /\ HasEvent("error")
  /\ last.op = "deliver"

\* C17: a completed message is off the response stack before its dispatch runs, so
\* that whatever the dispatch does (also raising an error), no completed response
\* (final frame seen, no bytes left) is on the stack once the delivery has returned.
C17_DispatchAfterDiscard ==
  \A i \in 1..Len(responseStack) :
    ~(responseStack[i].isFin /\ responseStack[i].bytesLeft <= 0)

\* C18: while OPEN with a fragmented data message under way, a delivery of one whole
\* unmasked ping frame, or close frame whose payload is not 1 byte long, raises no
\* exception and no "error" event and leaves the message under way as it was; the
\* ping is dispatched on its own ("ping" with its payload is the only event), the
\* close frame is recorded as received and no "message" is dispatched.
C18_ControlFrameInsideMessage ==
  [][ LET frames == Frames(last'.buffer)
      IN  (/\ DeliversWhole /\ steps' = steps + 1
           /\ AtFrameBoundary /\ responseStack # <<>>
           /\ Len(frames) = 1
           /\ frames[1].fin /\ ~frames[1].masked
           /\ frames[1].opcode \in {OpcodePing, OpcodeConnectionClose}
           /\ ~(frames[1].opcode = OpcodeConnectionClose /\ Len(frames[1].payload) = 1))
            => /\ last'.thrown = NoThrow
               /\ EventsNamed(NewEvents, {"error", "message"}) = <<>>
               /\ responseStack' = responseStack
               /\ frames[1].opcode = OpcodePing =>
                    NewEvents = <<[name |-> "ping", type |-> "buffer", code |-> 0,
                                   data |-> frames[1].payload]>>
               /\ frames[1].opcode = OpcodeConnectionClose => closeFrameReceived' ]_vars

\* C19: while OPEN with no message under way, a delivery of whole frames that begins
\* with an unmasked continuation frame emits "error" and puts no response on the
\* stack.
C19_LoneContinuation ==
  [][ LET frames == Frames(last'.buffer)
      IN  (/\ DeliversWhole /\ steps' = steps + 1
           /\ responseStack = <<>>
           /\ frames # <<>>
           /\ frames[1].opcode = OpcodeContinueFrame /\ ~frames[1].masked)
            => /\ EventsNamed(NewEvents, {"error"}) # <<>>
               /\ responseStack' = <<>> ]_vars

-----------------------------------------------------------------------------
(* Claims about the teardown, checked under Spec *)

\* C20: over any interleaving of close() calls, write completions, deliveries and
\* notifications of the transport, "close" is emitted at most once, and no step
\* calls socket.close() on a socket that was released (set to undefined) or that
\* is no longer connected.
C20_CloseOnce ==
  /\ Len(EventsNamed(events, {"close"})) <= 1
  /\ last.thrown \notin {ErrSocketUndefined, ErrSocketNotConnected}

\* C21: once "close" has been emitted, no step emits "message", "ping" or "open":
\* in the events, none of these follows a "close".
C21_QuietAfterClose ==
  \A i \in 1..Len(events) :
    events[i].name = "close" =>
      \A j \in (i + 1)..Len(events) : events[j].name \notin {"message", "ping", "open"}

-----------------------------------------------------------------------------
(* Sending a Buffer that the application keeps *)

MaxBufferSteps == 3

\* the bytes of the Buffer passed as data, after WebSocket.send has returned:
\* createFrameBuffer runs on options.data itself when the frame is built
DataAfterSend(s, data, mask) ==
  IF s.readyState = OPEN
    THEN createFrameBuffer(data, OpcodeBinaryFrame, TRUE, FALSE, mask).data
    ELSE data

\* the application calls send(buffer, options, cb) with the Buffer it holds
SendHeld(O, K) ==
  /\ steps < MaxSteps
  /\ \E o \in O, mask \in K :
       /\ ApplyObject(send(State, callerBuffer, o.options,
                           IF o.hasCb THEN UserCb("send") ELSE NoCb, mask),
                      Call("send", callerBuffer, Opt(o.options, "binary", TRUE),
                           Opt(o.options, "fin", TRUE), o.hasCb))
       /\ callerBuffer' = DataAfterSend(State, callerBuffer, mask)

CallerBuffers == { <<104, 105>>, <<1, 129, 7, 0, 255>> }

HeldSends == { [options |-> <<>>, hasCb |-> TRUE], [options |-> <<>>, hasCb |-> FALSE],
               [options |-> [fin |-> FALSE], hasCb |-> FALSE] }

InitBuffer ==
  \E key \in SecKeys, b \in CallerBuffers : InitObject(Opened(key)) /\ callerBuffer = b

NextBuffer ==
  \/ steps < MaxBufferSteps /\ SendHeld(HeldSends, MaskKeys)
  \/ steps < MaxBufferSteps /\ Close(LifeCloses, MaskKeys)
  \/ steps < MaxBufferSteps /\ WriteComplete

SpecBuffer == InitBuffer /\ [][NextBuffer]_vars

\* the payload of the frame written w, unmasked with the frame's key
Unmasked(w) == applyMask(HeadFrame(w).payload, HeadFrame(w).key)

\* C22: send(data) leaves the bytes of the caller's Buffer as they were, and the
\* frame it writes while OPEN carries those bytes: sending the Buffer again
\* transmits the same payload.
C22_DataUnchanged ==
  [][ (last'.op = "send" /\ steps' = steps + 1)
        => /\ callerBuffer' = callerBuffer
           /\ readyState = OPEN =>
                /\ Len(NewWritten) = 1
                /\ Unmasked(NewWritten[1]) = last'.buffer
                /\ \A i \in 2..Len(written) :
                     HeadFrame(written[i]).opcode # OpcodeConnectionClose
                       => Unmasked(NewWritten[1]) = Unmasked(written[i]) ]_vars

====
